---- MODULE Spec2Model ----
(***************************************************************************)
(* A model of auto_causality.optimiser.AutoCausality: the resolution of    *)
(* the requested estimator list in the constructor, and the search loop of *)
(* fit with its result mappings and accessors.                             *)
(*                                                                         *)
(* Python values are modelled as follows.                                  *)
(*   - a value whose type the code tests (the estimator_list setting and   *)
(*     its elements) is a record [type, val];                              *)
(*   - a dict whose iteration order the code relies on is a sequence of    *)
(*     <<key, value>> pairs in insertion order;                            *)
(*   - a hyperparameter mapping (a config) is a set of <<name, value>>     *)
(*     pairs, so the empty mapping is {};                                  *)
(*   - a value that may be None is None == <<>> or Some(v) == <<v>>;       *)
(*   - a str is a TLA+ string, and Chars gives its characters, so that     *)
(*     Python's `a in b` on strings is a real substring test.              *)
(***************************************************************************)
EXTENDS Integers, Sequences, FiniteSets, TLC

VARIABLES
    settings,                \* self._settings (the entries the model reads)
    estimator_list,          \* self.estimator_list
    warnings,                \* the warnings emitted so far, in order
    raised,                  \* the exception that ended the running call, or "none"
    scores,                  \* self.scores: dict name -> Some(score) or None
    estimates,               \* self.estimates: dict name -> fitted estimate
    full_scores,             \* self.full_scores: dict name -> score record
    tune_results,            \* self.tune_results: dict name -> Some(config) or None
    trained_estimators_dict, \* self.trained_estimators_dict
    identified_estimand,     \* self.identified_estimand
    attrs,                   \* the attributes fit has set on self so far
    estimator_name,          \* self.estimator_name, meaningful when in attrs
    pc,                      \* the position of the caller / of fit
    idx,                     \* the index of the for loop of fit in estimator_list
    tuner,                   \* the state of the running tune.run
    state,                   \* per estimator: NotStarted, Searching, Completed, Failed
    trial_log,               \* per estimator: the trial-runner calls of this fit
    files,                   \* the snapshot files on disk
    clock,                   \* the time elapsed since the running fit started,
                             \* up to the time budget
    fit_calls,               \* the number of fit calls made on the object
    scoring                  \* a call of make_scores: its input and its result

vars == <<settings, estimator_list, warnings, raised, scores, estimates, full_scores,
          tune_results, trained_estimators_dict, identified_estimand, attrs,
          estimator_name, pc, idx, tuner, state, trial_log, files, clock,
          fit_calls, scoring>>

-----------------------------------------------------------------------------
(* Bounds of the model. *)

\* the longest requested estimator list that is enumerated
MaxReqLen == 2

\* the selection-metric values a trial can return are 1..MaxScore
MaxScore == 2

\* num_samples: the maximum number of trials of one tune.run
NumSamples == 2

\* time_budget: the time budget of the tuner settings, in units of time
TimeBudget == 2

\* a trial takes 1..MaxTrialTime units of time
MaxTrialTime == 2

-----------------------------------------------------------------------------
(* Python values. *)

None == <<>>

Some(v) == <<v>>

PyStr(s) == [type |-> "str", val |-> s]

PyInt(n) == [type |-> "int", val |-> n]

PyList(l) == [type |-> "list", val |-> l]

\* Python's == on the modelled values: values of different types are unequal
PyEq(a, b) == a.type = b.type /\ a.val = b.val

\* the characters of every str the model uses
Chars ==
    "backdoor.econml.metalearners.SLearner" :>
        <<"b","a","c","k","d","o","o","r",".","e","c","o","n","m","l",".","m","e","t","a","l","e","a","r","n","e","r","s",".","S","L","e","a","r","n","e","r">> @@
    "backdoor.econml.metalearners.TLearner" :>
        <<"b","a","c","k","d","o","o","r",".","e","c","o","n","m","l",".","m","e","t","a","l","e","a","r","n","e","r","s",".","T","L","e","a","r","n","e","r">> @@
    "backdoor.econml.dml.DML" :>
        <<"b","a","c","k","d","o","o","r",".","e","c","o","n","m","l",".","d","m","l",".","D","M","L">> @@
    "backdoor.econml.dml.LinearDML" :>
        <<"b","a","c","k","d","o","o","r",".","e","c","o","n","m","l",".","d","m","l",".","L","i","n","e","a","r","D","M","L">> @@
    "backdoor.econml.dml.SparseLinearDML" :>
        <<"b","a","c","k","d","o","o","r",".","e","c","o","n","m","l",".","d","m","l",".","S","p","a","r","s","e","L","i","n","e","a","r","D","M","L">> @@
    "metalearners" :>
        <<"m","e","t","a","l","e","a","r","n","e","r","s">> @@
    "CausalForestDML" :>
        <<"C","a","u","s","a","l","F","o","r","e","s","t","D","M","L">> @@
    ".LinearDML" :>
        <<".","L","i","n","e","a","r","D","M","L">> @@
    "SparseLinearDML" :>
        <<"S","p","a","r","s","e","L","i","n","e","a","r","D","M","L">> @@
    "ForestDRLearner" :>
        <<"F","o","r","e","s","t","D","R","L","e","a","r","n","e","r">> @@
    "LinearDRLearner" :>
        <<"L","i","n","e","a","r","D","R","L","e","a","r","n","e","r">> @@
    "Ortho" :>
        <<"O","r","t","h","o">> @@
    "TransformedOutcome" :>
        <<"T","r","a","n","s","f","o","r","m","e","d","O","u","t","c","o","m","e">> @@
    "SLearner" :>
        <<"S","L","e","a","r","n","e","r">> @@
    "LinearDML" :>
        <<"L","i","n","e","a","r","D","M","L">> @@
    "DML" :>
        <<"D","M","L">> @@
    "dml.DML" :>
        <<"d","m","l",".","D","M","L">> @@
    "pasta" :>
        <<"p","a","s","t","a">>

\* Python's `s in t` for two str: s is a contiguous substring of t (case-sensitive)
StrIn(s, t) ==
    LET cs == Chars[s]
        ct == Chars[t]
    IN  \E i \in 0..(Len(ct) - Len(cs)) : SubSeq(ct, i + 1, i + Len(cs)) = cs

(* dicts, in insertion order *)

HasKey(d, k) == \E i \in 1..Len(d) : d[i][1] = k

Get(d, k) == d[CHOOSE i \in 1..Len(d) : d[i][1] = k][2]

\* d[k] = v: an existing key keeps its position, a new key goes last
Put(d, k, v) ==
    IF HasKey(d, k)
    THEN [i \in 1..Len(d) |-> IF d[i][1] = k THEN <<k, v>> ELSE d[i]]
    ELSE Append(d, <<k, v>>)

\* the elements of a sequence
Range(s) == {s[i] : i \in 1..Len(s)}

-----------------------------------------------------------------------------
(* The registry: SimpleParamService. *)

\* self.cfg.estimators(): every estimator the parameter service knows, in its order
Registry ==
    << "backdoor.econml.metalearners.SLearner",
       "backdoor.econml.metalearners.TLearner",
       "backdoor.econml.dml.DML",
       "backdoor.econml.dml.LinearDML",
       "backdoor.econml.dml.SparseLinearDML" >>

\* the name patterns of the estimators AutoCausality supports
SupportedPatterns ==
    << "metalearners", "CausalForestDML", ".LinearDML", "SparseLinearDML",
       "ForestDRLearner", "LinearDRLearner", "Ortho", "TransformedOutcome" >>

\* available_estimators: the registry entries that contain a supported pattern
available_estimators ==
    SelectSeq(Registry,
              LAMBDA estimator :
                  \E i \in 1..Len(SupportedPatterns) :
                      StrIn(SupportedPatterns[i], estimator))

-----------------------------------------------------------------------------
(* Resolution of the requested estimator list. *)

\* _verify_estimator_list: a list all of whose elements are str
verify_estimator_list(requested) ==
    /\ requested.type = "list"
    /\ \A i \in 1..Len(requested.val) : requested.val[i].type = "str"

\* [a for r in requested for a in available if r in a]
RECURSIVE Matches(_)
Matches(requested) ==
    IF requested = <<>>
    THEN <<>>
    ELSE SelectSeq(available_estimators,
                   LAMBDA a : StrIn(Head(requested).val, a))
         \o Matches(Tail(requested))

\* a list(l) in the place of list(dict.fromkeys(l))
FromKeysKeepsAll(l) == l

\* list(dict.fromkeys(l)): the first occurrence of every element, in order
RECURSIVE FromKeys(_)
FromKeys(l) ==
    IF l = <<>>
    THEN <<>>
    ELSE LET init == FromKeys(SubSeq(l, 1, Len(l) - 1))
             last == l[Len(l)]
         IN  IF last \in Range(init) THEN init ELSE Append(init, last)

estimators_to_use(requested) == FromKeys(Matches(requested.val))

WarnNoneSpecified == "No estimators specified, adding all available estimators..."

WarnNotImplemented == "requested estimators not implemented, continuing with defaults"

WarnInvalid == "invalid estimator list requested, continuing with defaults"

\* a resolution without the fallback of lines 194-198
create_estimator_list_no_fallback(requested) ==
    IF PyEq(requested, PyStr("auto")) \/ PyEq(requested, PyList(<<>>))
    THEN [list |-> available_estimators, warning |-> WarnNoneSpecified,
          raises |-> "none"]
    ELSE IF verify_estimator_list(requested)
    THEN [list |-> estimators_to_use(requested), warning |-> "",
          raises |-> "none"]
    ELSE [list |-> available_estimators, warning |-> WarnInvalid,
          raises |-> "none"]

\* _create_estimator_list: the list it returns, the warning it emits ("" for
\* none) and the exception it raises ("none": it raises nothing)
create_estimator_list(requested) ==
    IF PyEq(requested, PyStr("auto")) \/ PyEq(requested, PyList(<<>>))
    THEN [list |-> available_estimators, warning |-> WarnNoneSpecified,
          raises |-> "none"]
    ELSE IF verify_estimator_list(requested)
    THEN IF estimators_to_use(requested) = <<>>
         THEN [list |-> available_estimators, warning |-> WarnNotImplemented,
               raises |-> "none"]
         ELSE [list |-> estimators_to_use(requested), warning |-> "",
               raises |-> "none"]
    ELSE [list |-> available_estimators, warning |-> WarnInvalid,
          raises |-> "none"]

-----------------------------------------------------------------------------
(* The estimator descriptors and the trial runner. *)

\* self.cfg.method_params(name): the fixed init_params and the search space
\* (hyperparameter name -> the values the tuner may choose) of an estimator
method_params(name) ==
    CASE name = "backdoor.econml.metalearners.SLearner" ->
             [init_params |-> {<<"overall_model", "outcome_model">>},
              search_space |-> {}]
      [] name = "backdoor.econml.metalearners.TLearner" ->
             [init_params |-> {<<"models", "outcome_model">>},
              search_space |-> {}]
      [] name = "backdoor.econml.dml.LinearDML" ->
             [init_params |-> {<<"model_y", "outcome_model">>},
              search_space |-> {<<"mc_agg", {"mean", "median"}>>}]
      [] name = "backdoor.econml.dml.SparseLinearDML" ->
             [init_params |-> {<<"model_y", "outcome_model">>},
              search_space |-> {<<"mc_agg", {"mean", "median"}>>}]
      [] OTHER ->
             [init_params |-> {}, search_space |-> {}]

\* the configs a tuner can draw from a search space: one value per hyperparameter
Configs(search_space) ==
    LET pairs == UNION {{<<p[1], v>> : v \in p[2]} : p \in search_space}
    IN  {c \in SUBSET pairs :
            \A p \in search_space : Cardinality({q \in c : q[1] = p[1]}) = 1}

\* clean_config: the configs of this model carry no nested or dotted keys
clean_config(config) == config

\* {**a, **b}: the entries of b, and those of a under the other names
Merge(a, b) == b \cup {p \in a : \A q \in b : q[1] # p[1]}

\* the selection-metric values a successful trial can return
Scores == 1..MaxScore

\* the CausalEstimate that causal_model.estimate_effect returns
Estimate(name, config) ==
    [method_name |-> name,
     init_params |-> Merge(method_params(name).init_params, clean_config(config))]

\* the score record of _compute_metrics, by the selection metric on train
FullScores(name, metric) == [estimator_name |-> name, train |-> metric]

\* the error _estimate_effect raises by itself, line 372
NoEstimatorError == "AttributeError: No estimator for causal model specified"

\* the error of reading self.estimator_cfg, line 343, before fit has set it
NoEstimatorCfgError ==
    "AttributeError: 'AutoCausality' object has no attribute 'estimator_cfg'"

\* _estimate_effect, called on an object with the attributes a: what the call
\* can do. It reads self.estimator_cfg first (line 343), then tests for
\* self.estimator_name (line 350). The estimation and the scoring are
\* external: they return a result with any metric value, or raise.
estimate_effect(a) ==
    IF "estimator_cfg" \notin a
    THEN {[raises |-> NoEstimatorCfgError, metric |-> 0]}
    ELSE IF "estimator_name" \in a
    THEN {[raises |-> "none", metric |-> m] : m \in Scores}
            \cup {[raises |-> "Exception", metric |-> 0]}
    ELSE {[raises |-> NoEstimatorError, metric |-> 0]}

-----------------------------------------------------------------------------
(* The accessors. Each returns [raises, value]; value is "" when it raises. *)

\* max(d, key=d.get) from the second key on: a strict > scan in insertion
\* order; comparing None with anything raises TypeError
RECURSIVE MaxScan(_, _, _)
MaxScan(d, i, best) ==
    IF i > Len(d)
    THEN [raises |-> "none", value |-> d[best][1]]
    ELSE IF d[i][2] = None \/ d[best][2] = None
    THEN [raises |-> "TypeError", value |-> ""]
    ELSE IF d[i][2][1] > d[best][2][1]
    THEN MaxScan(d, i + 1, i)
    ELSE MaxScan(d, i + 1, best)

\* best_estimator: max(self.scores, key=self.scores.get)
best_estimator ==
    IF scores = <<>>
    THEN [raises |-> "ValueError", value |-> ""]
    ELSE MaxScan(scores, 2, 1)

\* best_score: self.scores[self.best_estimator], Some(score) or None
best_score ==
    IF best_estimator.raises # "none"
    THEN [raises |-> best_estimator.raises, value |-> None]
    ELSE [raises |-> "none", value |-> Get(scores, best_estimator.value)]

\* best_model_for_estimator: self.trained_estimators_dict[estimator_name]
best_model_for_estimator(name) ==
    IF HasKey(trained_estimators_dict, name)
    THEN [raises |-> "none", value |-> Some(Get(trained_estimators_dict, name))]
    ELSE [raises |-> "KeyError", value |-> None]

\* model: self.best_model_for_estimator(self.best_estimator)
model ==
    IF best_estimator.raises # "none"
    THEN [raises |-> best_estimator.raises, value |-> None]
    ELSE best_model_for_estimator(best_estimator.value)

\* best_config_per_estimator, once fit has created self.tune_results
RECURSIVE ConfigsOf(_)
ConfigsOf(names) ==
    IF names = <<>>
    THEN <<>>
    ELSE LET rest == ConfigsOf(Tail(names))
         IN  IF HasKey(tune_results, Head(names))
             THEN <<<<Head(names), Get(tune_results, Head(names))>>>> \o rest
             ELSE rest

best_config_per_estimator == ConfigsOf(estimator_list)

-----------------------------------------------------------------------------
(* The inputs. *)

\* the strings a requested list is built from
PatternPool ==
    {"metalearners", "SLearner", "LinearDML", ".LinearDML", "DML", "dml.DML",
     "pasta"}

\* the elements of a requested list: strings, and an element that is no string
ElemPool == {PyStr(p) : p \in PatternPool} \cup {PyInt(12)}

\* the values of the estimator_list argument that resolution is checked on
ResolveRequests ==
    {PyStr("auto"), PyInt(5)}
        \cup {PyList(l) : l \in UNION {[1..n -> ElemPool] : n \in 0..MaxReqLen}}

\* the values of the estimator_list argument that fit is checked on
FitRequests ==
    { PyStr("auto"),
      PyList(<<>>),
      PyList(<<PyStr("SLearner")>>),
      PyList(<<PyStr("LinearDML"), PyStr("metalearners")>>),
      PyList(<<PyStr(".LinearDML"), PyStr("SLearner")>>) }

\* the values of the model_save_path argument
SavePaths == {None, Some("models/")}

-----------------------------------------------------------------------------
(* The constructor. *)

NoLog == [direct |-> <<>>, worker |-> 0]

\* a tune.run that has started no trial: the trials started, the best trial,
\* and the time elapsed since the run started
NoTuner == [n |-> 0, best |-> None, elapsed |-> 0]

\* the number of fit calls on one object
MaxFits == 2

\* the largest time budget a constructor is given
MaxBudget == 8

\* the largest number of rows of a dataframe that is scored
MaxRows == 2

\* the time t after d more units; a time is read up to the time budget, the
\* only time it is ever compared with
Later(t, d) == IF t + d < TimeBudget THEN t + d ELSE TimeBudget

\* the time a trial can take
TrialTimes == 1..MaxTrialTime

\* the attributes of an object on which nothing has been searched
Blank ==
    /\ raised = "none"
    /\ scores = <<>>
    /\ estimates = <<>>
    /\ full_scores = <<>>
    /\ tune_results = <<>>
    /\ trained_estimators_dict = <<>>
    /\ identified_estimand = None
    /\ attrs = {}
    /\ estimator_name = ""
    /\ idx = 0
    /\ tuner = NoTuner
    /\ files = {}
    /\ clock = 0
    /\ fit_calls = 0

\* the state the attributes of __init__ give, before the estimator list is made
Fresh(requested, path) ==
    /\ settings = [estimator_list |-> requested, model_save_path |-> path]
    /\ scoring = None
    /\ Blank

\* the state after __init__: the estimator list resolved, nothing searched
Init ==
    \E requested \in FitRequests, path \in SavePaths :
        /\ Fresh(requested, path)
        /\ estimator_list = create_estimator_list(requested).list
        /\ warnings = <<create_estimator_list(requested).warning>>
        /\ state = [e \in Range(estimator_list) |-> "NotStarted"]
        /\ trial_log = [e \in Range(estimator_list) |-> NoLog]
        /\ pc = "idle"

\* the arguments of a constructor call that has not resolved its list yet
InitResolve ==
    \E requested \in ResolveRequests :
        /\ Fresh(requested, None)
        /\ estimator_list = <<>>
        /\ warnings = <<>>
        /\ state = <<>>
        /\ trial_log = <<>>
        /\ pc = "new"

\* self.estimator_list = self._create_estimator_list()
Construct ==
    /\ pc = "new"
    /\ LET r == create_estimator_list(settings.estimator_list)
       IN  /\ raised' = r.raises
           /\ pc' = IF r.raises = "none" THEN "idle" ELSE "raised"
           /\ estimator_list' = IF r.raises = "none" THEN r.list ELSE <<>>
           /\ warnings' = IF r.warning = "" THEN warnings
                          ELSE Append(warnings, r.warning)
           /\ state' = [e \in Range(estimator_list') |-> "NotStarted"]
           /\ trial_log' = [e \in Range(estimator_list') |-> NoLog]
    /\ UNCHANGED <<settings, scores, estimates, full_scores, tune_results,
                   trained_estimators_dict, identified_estimand, attrs,
                   estimator_name, idx, tuner, files, clock, fit_calls, scoring>>

-----------------------------------------------------------------------------
(* fit. *)

\* lines 235-266: the split, the causal model and its estimand, the R-scorer,
\* and a new, empty tune_results
FitStart ==
    /\ pc = "idle"
    /\ pc' = "loop"
    /\ idx' = 1
    /\ identified_estimand' = Some("estimand")
    /\ tune_results' = <<>>
    /\ attrs' = attrs \cup {"train_df", "test_df", "r_scorer", "tune_results"}
    /\ raised' = "none"
    /\ clock' = 0
    /\ fit_calls' = fit_calls + 1
    /\ UNCHANGED <<settings, estimator_list, warnings, scores, estimates,
                   full_scores, trained_estimators_dict, estimator_name, tuner,
                   state, trial_log, files, scoring>>

\* the estimator the for loop of fit is at
Current == estimator_list[idx]

\* lines 296-298: the best result of the current estimator goes into the mappings
Record(config, metric) ==
    /\ estimates' = Put(estimates, Current, Estimate(Current, config))
    /\ full_scores' = Put(full_scores, Current, FullScores(Current, metric))
    /\ scores' = Put(scores, Current, Some(metric))

\* the init_params in the place of the {} of line 272
single_trial_config_init_params(name) == method_params(name).init_params

\* line 272: the tune_results entry of an estimator without a search space
single_trial_config(name) == {}

\* lines 268-272: the loop takes the next estimator; with an empty search space
\* its tune_results entry is the empty mapping at once
StartEstimator ==
    /\ pc = "loop"
    /\ idx <= Len(estimator_list)
    /\ estimator_name' = Current
    /\ attrs' = attrs \cup {"estimator_name", "estimator_cfg"}
    /\ state' = [state EXCEPT ![Current] = "Searching"]
    /\ IF method_params(Current).search_space = {}
       THEN /\ tune_results' = Put(tune_results, Current,
                                      Some(single_trial_config(Current)))
            /\ pc' = "single"
       ELSE /\ tune_results' = tune_results
            /\ pc' = "tuning"
    /\ tuner' = NoTuner
    /\ UNCHANGED <<settings, estimator_list, warnings, raised, scores, estimates,
                   full_scores, trained_estimators_dict, identified_estimand, idx,
                   trial_log, files, clock, fit_calls, scoring>>

\* a call of _estimate_effect from the process of fit, in the log of the calls
estimate_directly(log, config) == [log EXCEPT !.direct = Append(@, config)]

\* _tune_with_config, lines 313-336, in the log of the calls: it runs
\* _estimate_effect in a worker of Parallel(n_jobs=2)
tune_with_config(log, config) == [log EXCEPT !.worker = @ + 1]

\* lines 274 and 296-298: the one trial of an estimator without a search space,
\* called in the process of fit with init_params; an exception leaves fit
SingleTrial ==
    /\ pc = "single"
    /\ \E out \in estimate_effect(attrs) :
           LET config == method_params(Current).init_params
           IN  /\ trial_log' = [trial_log EXCEPT
                                    ![Current] = estimate_directly(@, config)]
               /\ IF out.raises = "none"
                  THEN /\ Record(config, out.metric)
                       /\ state' = [state EXCEPT ![Current] = "Completed"]
                       /\ idx' = idx + 1
                       /\ pc' = "loop"
                       /\ raised' = raised
                  ELSE /\ UNCHANGED <<estimates, full_scores, scores, idx>>
                       /\ state' = [state EXCEPT ![Current] = "Failed"]
                       /\ pc' = "raised"
                       /\ raised' = out.raises
    /\ \E d \in TrialTimes : clock' = Later(clock, d)
    /\ UNCHANGED <<settings, estimator_list, warnings, tune_results,
                   trained_estimators_dict, identified_estimand, attrs,
                   estimator_name, tuner, files, fit_calls, scoring>>

\* the best trial after one more trial: the first of the highest metric
BetterTrial(best, config, out) ==
    IF out.raises # "none"
    THEN best
    ELSE IF best = None \/ out.metric > best[1].metric
    THEN Some([config |-> config, metric |-> out.metric])
    ELSE best

\* tune.run with time_budget_s and num_samples (lines 276-284) starts one
\* more trial while its own run has lasted less than the time budget and it
\* has started fewer than num_samples trials
TunerGoesOn(t) == t.n < NumSamples /\ t.elapsed < TimeBudget

\* a trial that stores its estimate itself, as the lines commented out at
\* 331-335 did
TuneTrialStoresEstimate ==
    /\ pc = "tuning"
    /\ TunerGoesOn(tuner)
    /\ \E config \in Configs(method_params(Current).search_space),
          out \in estimate_effect(attrs), d \in TrialTimes :
           /\ tuner' = [n |-> tuner.n + 1,
                        best |-> BetterTrial(tuner.best, config, out),
                        elapsed |-> Later(tuner.elapsed, d)]
           /\ clock' = Later(clock, d)
           /\ trial_log' = [trial_log EXCEPT
                                ![Current] = tune_with_config(@, config)]
           /\ estimates' = IF out.raises = "none"
                           THEN Put(estimates, Current, Estimate(Current, config))
                           ELSE estimates
    /\ UNCHANGED <<settings, estimator_list, warnings, raised, scores,
                   full_scores, tune_results, trained_estimators_dict,
                   identified_estimand, attrs, estimator_name, pc, idx, state,
                   files, fit_calls, scoring>>

\* lines 276-284 and 313-336: tune.run draws a config and calls
\* _tune_with_config, which runs _estimate_effect in a worker; the tuner keeps
\* a failed trial out of the best-trial selection
TuneTrial ==
    /\ pc = "tuning"
    /\ TunerGoesOn(tuner)
    /\ \E config \in Configs(method_params(Current).search_space),
          out \in estimate_effect(attrs), d \in TrialTimes :
           /\ tuner' = [n |-> tuner.n + 1,
                        best |-> BetterTrial(tuner.best, config, out),
                        elapsed |-> Later(tuner.elapsed, d)]
           /\ clock' = Later(clock, d)
           /\ trial_log' = [trial_log EXCEPT
                                ![Current] = tune_with_config(@, config)]
    /\ UNCHANGED <<settings, estimator_list, warnings, raised, scores, estimates,
                   full_scores, tune_results, trained_estimators_dict,
                   identified_estimand, attrs, estimator_name, pc, idx, state,
                   files, fit_calls, scoring>>

\* results.best_config: the config of the best trial, None without one
BestConfig(best) == IF best = None THEN None ELSE Some(best[1].config)

\* lines 286-298: tune.run has returned, on num_samples trials or on the time
\* budget; without a best trial the score is None and the loop continues
TuneEnd ==
    /\ pc = "tuning"
    /\ ~TunerGoesOn(tuner)
    /\ tune_results' = Put(tune_results, Current, BestConfig(tuner.best))
    /\ IF tuner.best = None
       THEN /\ scores' = Put(scores, Current, None)
            /\ UNCHANGED <<estimates, full_scores>>
            /\ state' = [state EXCEPT ![Current] = "Failed"]
       ELSE /\ Record(tuner.best[1].config, tuner.best[1].metric)
            /\ state' = [state EXCEPT ![Current] = "Completed"]
    /\ idx' = idx + 1
    /\ pc' = "loop"
    /\ tuner' = NoTuner
    /\ UNCHANGED <<settings, estimator_list, warnings, raised,
                   trained_estimators_dict, identified_estimand, attrs,
                   estimator_name, trial_log, files, clock, fit_calls, scoring>>

\* line 306 with no model_save_path: fit returns
FitReturn ==
    /\ pc = "loop"
    /\ idx > Len(estimator_list)
    /\ settings.model_save_path = None
    /\ pc' = "returned"
    /\ UNCHANGED <<settings, estimator_list, warnings, raised, scores, estimates,
                   full_scores, tune_results, trained_estimators_dict,
                   identified_estimand, attrs, estimator_name, idx, tuner, state,
                   trial_log, files, clock, fit_calls, scoring>>

\* pickle.dump(obj) without its file argument
pickle_dump == "TypeError"

\* lines 306-309 with a model_save_path: the first pass of the snapshot loop
\* opens (creates) the file of the first estimator, then looks its model up in
\* trained_estimators_dict and calls pickle.dump; either raises, so no pass
\* follows it. (Line 308 nests quotes in an f-string, which parses from
\* Python 3.12 on; the model is of an interpreter that imports the module.)
Snapshot ==
    /\ pc = "loop"
    /\ idx > Len(estimator_list)
    /\ settings.model_save_path # None
    /\ LET name == estimator_list[1]
           best_model == best_model_for_estimator(name)
       IN  /\ files' = files \cup {[estimator |-> name, content |-> None]}
           /\ raised' = IF best_model.raises # "none"
                        THEN best_model.raises
                        ELSE pickle_dump
    /\ pc' = "raised"
    /\ UNCHANGED <<settings, estimator_list, warnings, scores, estimates,
                   full_scores, tune_results, trained_estimators_dict,
                   identified_estimand, attrs, estimator_name, idx, tuner, state,
                   trial_log, clock, fit_calls, scoring>>

\* lines 338-372: a caller runs _estimate_effect on an object that fit has not
\* been called on; the exception it raises ends the caller's run
DirectTrial ==
    /\ pc = "idle"
    /\ \E out \in estimate_effect(attrs) :
           /\ raised' = out.raises
           /\ pc' = "direct"
    /\ UNCHANGED <<settings, estimator_list, warnings, scores, estimates,
                   full_scores, tune_results, trained_estimators_dict,
                   identified_estimand, attrs, estimator_name, idx, tuner,
                   state, trial_log, files, clock, fit_calls, scoring>>

Next ==
    \/ FitStart
    \/ StartEstimator
    \/ SingleTrial
    \/ TuneTrial
    \/ TuneEnd
    \/ FitReturn
    \/ Snapshot
    \/ DirectTrial

Spec == Init /\ [][Next]_vars

\* a further fit call on an object whose fit has returned: lines 235-266 again,
\* on the mappings the earlier call left; a new search begins for every
\* estimator
Refit ==
    /\ pc = "returned"
    /\ fit_calls < MaxFits
    /\ pc' = "loop"
    /\ idx' = 1
    /\ identified_estimand' = Some("estimand")
    /\ tune_results' = <<>>
    /\ attrs' = attrs \cup {"train_df", "test_df", "r_scorer", "tune_results"}
    /\ raised' = "none"
    /\ clock' = 0
    /\ fit_calls' = fit_calls + 1
    /\ state' = [e \in Range(estimator_list) |-> "NotStarted"]
    /\ trial_log' = [e \in Range(estimator_list) |-> NoLog]
    /\ UNCHANGED <<settings, estimator_list, warnings, scores, estimates,
                   full_scores, trained_estimators_dict, estimator_name, tuner,
                   files, scoring>>

\* an object without a model_save_path, so that its fit calls return
InitRefit ==
    /\ Init
    /\ settings.model_save_path = None

NextRefit ==
    \/ FitStart
    \/ StartEstimator
    \/ SingleTrial
    \/ TuneTrial
    \/ TuneEnd
    \/ FitReturn
    \/ Refit

SpecRefit == InitRefit /\ [][NextRefit]_vars

\* lines 106-110: the time budget of the component models
component_models_time_budget(components_time_budget, time_budget) ==
    IF components_time_budget < time_budget
    THEN components_time_budget
    ELSE (time_budget \div 2) + 1

\* the values of the time_budget and components_time_budget arguments; -1 is
\* the documented 'no limit' (line 67)
Budgets == (-1)..MaxBudget

\* a constructor call with its two budget arguments, nothing stored yet
InitBudget ==
    \E time_budget \in Budgets, components_time_budget \in Budgets :
        /\ settings = [time_budget |-> time_budget,
                       components_time_budget |-> components_time_budget]
        /\ scoring = None
        /\ Blank
        /\ estimator_list = <<>>
        /\ warnings = <<>>
        /\ state = <<>>
        /\ trial_log = <<>>
        /\ pc = "args"

\* lines 85-110: the budgets go into the settings; the arguments are kept
\* beside what is stored
StoreBudgets ==
    /\ pc = "args"
    /\ settings' =
           [time_budget |-> settings.time_budget,
            components_time_budget |-> settings.components_time_budget,
            tuner_time_budget_s |-> settings.time_budget,
            component_models_time_budget |->
                component_models_time_budget(settings.components_time_budget,
                                             settings.time_budget)]
    /\ pc' = "settings"
    /\ UNCHANGED <<estimator_list, warnings, raised, scores, estimates,
                   full_scores, tune_results, trained_estimators_dict,
                   identified_estimand, attrs, estimator_name, idx, tuner,
                   state, trial_log, files, clock, fit_calls, scoring>>

NextBudget == StoreBudgets

SpecBudget == InitBudget /\ [][NextBudget]_vars

-----------------------------------------------------------------------------
(* scoring.py: make_scores.  A dataframe is its index, a sequence of labels,
   and the set of its columns; an array is its length; the outcome of a
   statement is the exception it raises, or "none" and its value. *)

Returned(v) == [raises |-> "none", value |-> v]

Raised(e) == [raises |-> e, value |-> None]

\* the keys of the dict make_scores returns (lines 158-166)
ScoreKeys == {"erupt", "qini", "auc", "r_score", "ate", "intrp", "values"}

\* the index reset_index(drop=True) gives: 0 .. n-1
RangeIndex(n) == [i \in 1..n |-> i - 1]

IsUnique(index) ==
    \A i, j \in 1..Len(index) : index[i] = index[j] => i = j

\* df[[...]]: the listed columns, KeyError if one is missing
select_columns(df, names) ==
    IF names \subseteq df.columns
    THEN Returned([index |-> df.index, columns |-> names])
    ELSE Raised("KeyError")

reset_index(t) == [index |-> RangeIndex(Len(t.index)), columns |-> t.columns]

\* t[name] = array: by position, ValueError unless the lengths agree; the rows
\* of t stay as they are
set_array(t, name, n) ==
    IF n = Len(t.index)
    THEN Returned([index |-> t.index, columns |-> t.columns \cup {name}])
    ELSE Raised("ValueError")

\* t[name] = Series: taken as it is under an equal index, else reindexed by t's
\* labels, which raises on duplicate labels; the rows of t stay as they are
set_series(t, name, index) ==
    IF index = t.index \/ IsUnique(index)
    THEN Returned([index |-> t.index, columns |-> t.columns \cup {name}])
    ELSE Raised("ValueError")

\* line 154: the treatment column is renamed
rename(t) ==
    [index |-> t.index,
     columns |-> (t.columns \ {"treatment"}) \cup {"treated"}]

\* a table built by joining the weights on the labels of the index, one row
\* for every pair of equal labels, and handed on without the row check
values_joined_unchecked(in) ==
    LET sel == select_columns(in.df, {"treatment", "outcome"})
    IN  IF sel.raises # "none" THEN sel ELSE
        LET v == reset_index(sel.value)
            n == Len(v.index)
            pairs == { <<i, j>> \in (1..n) \X (1..n) :
                           v.index[i] = in.df.index[j] }
            rows == IF in.weights_kind = "ndarray" THEN n
                    ELSE Cardinality(pairs)
        IN  Returned([index |-> RangeIndex(rows),
                      columns |-> {"treated", "outcome", "p", "policy",
                                   "weights"}])

\* lines 149-156: the per-row table 'values' and the check of its row count
values_of(in) ==
    LET sel == select_columns(in.df, {"treatment", "outcome"})
    IN  IF sel.raises # "none" THEN sel ELSE
        LET p == IF in.fails = "predict_proba"
                 THEN Raised("IndexError")
                 ELSE set_array(reset_index(sel.value), "p", Len(in.df.index))
        IN  IF p.raises # "none" THEN p ELSE
        LET policy == set_array(p.value, "policy", in.cate_len)
        IN  IF policy.raises # "none" THEN policy ELSE
        LET weights ==
                IF in.fails = "erupt.weights"
                THEN Raised("Exception")
                ELSE IF in.weights_kind = "ndarray"
                THEN set_array(policy.value, "weights", Len(in.df.index))
                ELSE set_series(policy.value, "weights", in.df.index)
        IN  IF weights.raises # "none" THEN weights ELSE
        LET values == rename(weights.value)
        IN  IF Len(values.index) = Len(in.df.index)
            THEN Returned(values)
            ELSE Raised("AssertionError")

\* the statements of lines 136-138 without the try around them
interpret_without_except(in) ==
    IF in.interpret_fails
    THEN Raised("Exception")
    ELSE IF ~in.has_effect_modifier_names
    THEN Raised("AttributeError")
    ELSE Returned(Some("SingleTreeCateInterpreter"))

\* lines 131-140: the tree is fitted inside try ... except: intrp = None, so
\* the statement never raises
try_interpret(in) ==
    IF in.interpret_fails \/ ~in.has_effect_modifier_names
    THEN Returned(None)
    ELSE Returned(Some("SingleTreeCateInterpreter"))

\* lines 143-148: ERUPT is made from est._effect_modifier_names and fitted
erupt_fit(in) ==
    IF ~in.has_effect_modifier_names
    THEN Raised("AttributeError")
    ELSE IF in.fails = "erupt.fit"
    THEN Raised("Exception")
    ELSE Returned("ERUPT")

Min(S) == CHOOSE x \in S : \A y \in S : x <= y

\* lines 122-168: the statements in their order; the first exception one of
\* them raises leaves make_scores, otherwise the dict is returned
make_scores(in) ==
    LET metric(name) == IF in.fails = name
                        THEN Raised("Exception")
                        ELSE Returned(name)
        intrp == try_interpret(in)
        values == values_of(in)
        r_score == IF in.has_r_scorer
                   THEN metric("r_make_score")
                   ELSE Returned("0")
        steps == << intrp, erupt_fit(in), values, metric("erupt_make_scores"),
                    metric("qini_make_score"), metric("auc_make_score"),
                    r_score >>
        failed == {i \in 1..Len(steps) : steps[i].raises # "none"}
    IN  IF failed # {}
        THEN Raised(steps[Min(failed)].raises)
        ELSE Returned(Some([erupt |-> "erupt_make_scores",
                            qini |-> "qini_make_score",
                            auc |-> "auc_make_score",
                            r_score |-> r_score.value,
                            ate |-> "np.mean",
                            intrp |-> intrp.value,
                            values |-> values.value]))

\* the dataframes that are scored: every index of up to MaxRows labels, with
\* both columns or with one of them missing
Frames ==
    [index : UNION {[1..n -> 0..MaxRows] : n \in 0..MaxRows},
     columns : {{"treatment", "outcome"}, {"treatment"}, {"outcome"}}]

\* the statements outside the try that an input makes fail
FailingSteps ==
    {"none", "erupt.fit", "predict_proba", "erupt.weights",
     "erupt_make_scores", "qini_make_score", "auc_make_score", "r_make_score"}

\* the arguments of make_scores and what the code it calls does with them: the
\* length of cate_estimate, whether the tree can be fitted, whether the
\* estimator has _effect_modifier_names, whether erupt.weights gives an array
\* or a Series on the index of df, and whether an r_scorer is given
ScoreInputs ==
    [df : Frames,
     cate_len : 0..MaxRows,
     interpret_fails : BOOLEAN,
     has_effect_modifier_names : BOOLEAN,
     weights_kind : {"ndarray", "Series"},
     fails : FailingSteps,
     has_r_scorer : BOOLEAN]

\* a call of make_scores that has its arguments
InitScore ==
    /\ settings = [estimator_list |-> PyStr("auto"), model_save_path |-> None]
    /\ Blank
    /\ estimator_list = <<>>
    /\ warnings = <<>>
    /\ state = <<>>
    /\ trial_log = <<>>
    /\ pc = "score"
    /\ \E in \in ScoreInputs : scoring = [input |-> in, result |-> None]

\* make_scores runs
Score ==
    /\ pc = "score"
    /\ scoring' = [scoring EXCEPT !.result = Some(make_scores(scoring.input))]
    /\ pc' = "scored"
    /\ UNCHANGED <<settings, estimator_list, warnings, raised, scores,
                   estimates, full_scores, tune_results,
                   trained_estimators_dict, identified_estimand, attrs,
                   estimator_name, idx, tuner, state, trial_log, files, clock,
                   fit_calls>>

NextScore == Score

SpecScore == InitScore /\ [][NextScore]_vars

NextResolve == Construct

SpecResolve == InitResolve /\ [][NextResolve]_vars

-----------------------------------------------------------------------------
(* The claims. *)

\* the position of an estimator in the estimator list
PosOf(e) == CHOOSE i \in 1..Len(estimator_list) : estimator_list[i] = e

Listed == Range(estimator_list)

Tuned(e) == method_params(e).search_space # {}

\* C1: an estimator with a non-empty search space all of whose trials failed
\* is Failed, is no key of the best-score mapping, and the loop of fit has
\* gone on past it.
C1_FailedTunedAbsentFromScores ==
    \A e \in Listed :
        (state[e] = "Failed" /\ Tuned(e)) =>
            /\ ~HasKey(scores, e)
            /\ idx > PosOf(e)

\* C2: after fit, with at least one Completed estimator, best_estimator does
\* not fail and is a Completed estimator of the maximal score, the first of
\* them in the order of the estimator list, and best_score is its score.
C2_BestIsFirstArgmaxOfCompleted ==
    (pc = "returned" /\ \E e \in Listed : state[e] = "Completed") =>
        /\ best_estimator.raises = "none"
        /\ best_estimator.value \in Listed
        /\ state[best_estimator.value] = "Completed"
        /\ \A e \in Listed :
               state[e] = "Completed" =>
                   /\ Get(scores, e)[1] <= Get(scores, best_estimator.value)[1]
                   /\ Get(scores, e) = Get(scores, best_estimator.value)
                          => PosOf(best_estimator.value) <= PosOf(e)
        /\ best_score = [raises |-> "none",
                         value |-> Get(scores, best_estimator.value)]

\* C3: when the single trial of an estimator with an empty search space
\* raises, the estimator is Failed and out of the selection, and fit is not
\* ended by it: the loop goes on to the estimators after it.
C3_SingleTrialFailureDoesNotEndFit ==
    \A e \in Listed :
        (state[e] = "Failed" /\ ~Tuned(e)) =>
            /\ ~HasKey(estimates, e)
            /\ pc # "raised"
            /\ idx > PosOf(e)

\* C4: an estimator with an empty search space gets exactly one trial, called
\* with its init_params only and not by a tuning run, and once fit has
\* returned best_config_per_estimator maps it to the empty mapping.
C4_EmptySpaceOneTrialEmptyConfig ==
    \A e \in Listed :
        ~Tuned(e) =>
            /\ trial_log[e].worker = 0
            /\ Len(trial_log[e].direct) <= 1
            /\ state[e] \in {"Completed", "Failed"} =>
                   trial_log[e].direct = <<method_params(e).init_params>>
            /\ pc = "returned" =>
                   /\ state[e] = "Completed"
                   /\ trial_log[e].direct = <<method_params(e).init_params>>
                   /\ HasKey(best_config_per_estimator, e)
                   /\ Get(best_config_per_estimator, e) = Some({})

\* a fit that returned, on a list with an estimator without a search space
\* after a tuned one
C4_Witness ==
    /\ pc = "returned"
    /\ \E e, t \in Listed :
           /\ ~Tuned(e)
           /\ Tuned(t)
           /\ PosOf(t) < PosOf(e)
           /\ trial_log[t].worker = NumSamples
           /\ Get(best_config_per_estimator, e) = Some({})

\* an estimator_list argument that is neither the sentinel nor a list of str
Invalid(requested) ==
    /\ ~PyEq(requested, PyStr("auto"))
    /\ ~verify_estimator_list(requested)

\* C5: on an invalid estimator_list argument the resolution raises ValueError
\* and resolves no list.
C5_InvalidRequestRaises ==
    (pc # "new" /\ Invalid(settings.estimator_list)) =>
        /\ raised = "ValueError"
        /\ pc = "raised"
        /\ estimator_list = <<>>

\* C6: with estimator_list = [] the fit path raises ValueError before any
\* estimation: no estimand, no trial, no entry in scores, estimates or
\* tune_results.
C6_EmptyRequestRaisesBeforeEstimation ==
    PyEq(settings.estimator_list, PyList(<<>>)) =>
        /\ pc # "idle" => raised = "ValueError"
        /\ identified_estimand = None
        /\ \A e \in Listed : trial_log[e] = NoLog
        /\ scores = <<>>
        /\ estimates = <<>>
        /\ tune_results = <<>>

\* the requested strings, and the first of them that an identifier contains
Requested == settings.estimator_list.val

FirstRequest(a) ==
    CHOOSE j \in 1..Len(Requested) :
        /\ StrIn(Requested[j].val, a)
        /\ \A k \in 1..(j - 1) : ~StrIn(Requested[k].val, a)

RegistryPos(a) == CHOOSE i \in 1..Len(Registry) : Registry[i] = a

\* a non-empty list of str, each a substring of an available identifier
AllMatch(requested) ==
    /\ verify_estimator_list(requested)
    /\ requested.val # <<>>
    /\ \A j \in 1..Len(requested.val) :
           \E a \in Range(available_estimators) : StrIn(requested.val[j].val, a)

\* C7: for a non-empty list of strings that all match, the resolved list holds
\* only registry identifiers that contain a requested string, holds none
\* twice, and is in the order of first match (request order, then registry
\* order).
C7_ResolvedSubsetNoDuplicatesFirstMatchOrder ==
    (pc = "idle" /\ AllMatch(settings.estimator_list)) =>
        /\ estimator_list # <<>>
        /\ \A i \in 1..Len(estimator_list) :
               /\ estimator_list[i] \in Range(Registry)
               /\ \E j \in 1..Len(Requested) :
                      StrIn(Requested[j].val, estimator_list[i])
        /\ \A i, k \in 1..Len(estimator_list) :
               i # k => estimator_list[i] # estimator_list[k]
        /\ \A i, k \in 1..Len(estimator_list) :
               i < k =>
                   LET a == estimator_list[i]
                       b == estimator_list[k]
                   IN  \/ FirstRequest(a) < FirstRequest(b)
                       \/ /\ FirstRequest(a) = FirstRequest(b)
                          /\ RegistryPos(a) < RegistryPos(b)

\* two patterns that both match the same two identifiers
C7_Witness ==
    /\ pc = "idle"
    /\ settings.estimator_list = PyList(<<PyStr("DML"), PyStr("LinearDML")>>)
    /\ estimator_list = << "backdoor.econml.dml.LinearDML",
                           "backdoor.econml.dml.SparseLinearDML" >>

\* a non-empty list of str none of which an available identifier contains
NoneMatch(requested) ==
    /\ verify_estimator_list(requested)
    /\ requested.val # <<>>
    /\ \A j \in 1..Len(requested.val) :
           \A a \in Range(available_estimators) : ~StrIn(requested.val[j].val, a)

\* C8: for a well-formed list of strings none of which matches an available
\* identifier, the resolution raises nothing, returns all the available
\* estimators and emits a warning.
C8_NoMatchFallsBackWithWarning ==
    (pc # "new" /\ NoneMatch(settings.estimator_list)) =>
        /\ raised = "none"
        /\ pc = "idle"
        /\ estimator_list = available_estimators
        /\ warnings = <<WarnNotImplemented>>

\* a request of an unknown name and of a registry entry that is not available
C8_Witness ==
    /\ pc = "idle"
    /\ settings.estimator_list = PyList(<<PyStr("pasta"), PyStr("dml.DML")>>)
    /\ Len(estimator_list) = 4

\* C9: after fit, for every Completed estimator best_model_for_estimator
\* returns its fitted estimator, and model returns the one of best_estimator;
\* neither raises.
C9_TrainedEstimatorRetrievable ==
    pc = "returned" =>
        /\ \A e \in Listed :
               state[e] = "Completed" => best_model_for_estimator(e).raises = "none"
        /\ (\E e \in Listed : state[e] = "Completed") => model.raises = "none"

\* the search loop of fit is through without an exception
LoopDone == pc \in {"loop", "returned", "raised"} /\ idx > Len(estimator_list)

\* C10: without a model_save_path fit writes no snapshot file; with one, a fit
\* whose search went through is not made to fail by the snapshot step, and
\* when it is over there is exactly one file per estimator, holding the best
\* fitted model of the estimator.
C10_SnapshotContract ==
    /\ settings.model_save_path = None => files = {}
    /\ (settings.model_save_path # None /\ LoopDone) =>
           /\ pc # "raised"
           /\ pc = "returned" =>
                  /\ {f.estimator : f \in files} = Listed
                  /\ Cardinality(files) = Len(estimator_list)
                  /\ \A f \in files : f.content # None

\* a step that starts a trial: a call of the trial runner is logged
TrialStarts == \E e \in Listed : trial_log'[e] # trial_log[e]

\* C11: the time budget is the budget of the whole fit call: no trial of any
\* estimator starts once the time elapsed since fit started has reached it;
\* and a search never starts more trials than the max trial count.
C11_TimeBudgetOfWholeFit ==
    [][ /\ TrialStarts => clock < TimeBudget
        /\ tuner'.n <= NumSamples ]_vars

\* the entry of a key in a dict: Some(value), or None without the key
Entry(d, k) == IF HasKey(d, k) THEN Some(Get(d, k)) ELSE None

Finished(s) == s \in {"Completed", "Failed"}

\* the steps of the state machine of one estimator
StateSteps ==
    { <<"NotStarted", "Searching">>, <<"Searching", "Completed">>,
      <<"Searching", "Failed">> }

\* C12: the estimators are processed one after the other: at most one is
\* Searching, an estimator leaves NotStarted only when the one before it is
\* Completed or Failed, every change of state is a step of NotStarted ->
\* Searching -> {Completed | Failed}, Completed and Failed are never left, and
\* the entries of an estimator in scores, estimates and full_scores change
\* only in the step of fit that ends its search, never in a worker's trial.
C12_SequentialStateMachine ==
    /\ [](/\ Cardinality({e \in Listed : state[e] = "Searching"}) <= 1
          /\ \A k \in 1..(Len(estimator_list) - 1) :
                 state[estimator_list[k + 1]] # "NotStarted"
                     => Finished(state[estimator_list[k]]))
    /\ [][\A e \in Listed :
              /\ Finished(state[e]) => state'[e] = state[e]
              /\ state'[e] # state[e] => <<state[e], state'[e]>> \in StateSteps
              /\ ( \/ Entry(scores', e) # Entry(scores, e)
                   \/ Entry(estimates', e) # Entry(estimates, e)
                   \/ Entry(full_scores', e) # Entry(full_scores, e) )
                     => /\ state[e] = "Searching"
                        /\ Finished(state'[e])
                        /\ trial_log'[e].worker = trial_log[e].worker]_vars

\* a Failed, a Completed, a Searching and a NotStarted estimator, in this order
C12_Witness ==
    /\ Len(estimator_list) = 4
    /\ state[estimator_list[1]] = "Failed"
    /\ state[estimator_list[2]] = "Completed"
    /\ state[estimator_list[3]] = "Searching"
    /\ state[estimator_list[4]] = "NotStarted"

\* C13: every trial runs _estimate_effect in a worker of its own, never in the
\* process of fit: no estimator's log holds a direct call, for a tuned
\* estimator and for one with an empty search space alike.
C13_EveryTrialInIsolatedWorker ==
    \A e \in Listed : trial_log[e].direct = <<>>

\* C16: _estimate_effect called before fit has selected an estimator raises
\* the error 'No estimator for causal model specified', and scores, estimates
\* and tune_results are as the constructor left them.
C16_MissingContextRaisesDedicatedError ==
    pc = "direct" =>
        /\ raised = NoEstimatorError
        /\ scores = <<>>
        /\ estimates = <<>>
        /\ tune_results = <<>>

\* C17: whenever a fit call has returned, after one call or after several on
\* the same object, an estimator is a key of estimates iff it is a key of
\* full_scores iff its entry in scores is a number, and an estimator that
\* Failed in this call has no entry in estimates or full_scores.
C17_MappingsAgreeAfterEveryFit ==
    pc = "returned" =>
        \A e \in Listed :
            /\ HasKey(estimates, e) <=> HasKey(full_scores, e)
            /\ HasKey(estimates, e) <=> Entry(scores, e) \notin {None, Some(None)}
            /\ state[e] = "Failed"
                   => ~HasKey(estimates, e) /\ ~HasKey(full_scores, e)

\* C18: for every time_budget and components_time_budget, the stored budget
\* of the component models is strictly positive, is at most the overall budget
\* unless that is the 'no limit' value -1, and is components_time_budget when
\* this is below time_budget and (time_budget // 2) + 1 otherwise.
C18_ComponentBudgetPositiveWithinBudget ==
    pc = "settings" =>
        /\ settings.component_models_time_budget > 0
        /\ settings.time_budget # -1
               => settings.component_models_time_budget <= settings.time_budget
        /\ settings.component_models_time_budget =
               IF settings.components_time_budget < settings.time_budget
               THEN settings.components_time_budget
               ELSE (settings.time_budget \div 2) + 1

\* a scoring step outside the try fails on the input: a missing attribute or
\* column, a cate_estimate of another length than df, a step that raises, or
\* weights that come as a Series with duplicate labels
OtherStepFails(in) ==
    \/ ~in.has_effect_modifier_names
    \/ in.fails = "r_make_score" /\ in.has_r_scorer
    \/ in.fails \notin {"none", "r_make_score"}
    \/ ~({"treatment", "outcome"} \subseteq in.df.columns)
    \/ in.cate_len # Len(in.df.index)
    \/ in.weights_kind = "Series" /\ ~IsUnique(in.df.index)

\* C14: make_scores swallows the failure of the tree fit and nothing else: if
\* no other step fails it returns a record with every key, whose intrp is
\* None exactly when the tree fit failed; if another step fails it raises and
\* returns no record, whether the tree fit failed or not.
C14_OnlyInterpreterFailureSwallowed ==
    pc = "scored" =>
        LET in == scoring.input
            res == scoring.result[1]
        IN  /\ OtherStepFails(in)
                => res.raises # "none" /\ res.value = None
            /\ ~OtherStepFails(in)
                => /\ res.raises = "none"
                   /\ DOMAIN res.value[1] = ScoreKeys
                   /\ in.interpret_fails <=> res.value[1].intrp = None

\* the tree fit failed and the record came back, with intrp None
C14_Witness ==
    /\ pc = "scored"
    /\ scoring.input.interpret_fails
    /\ scoring.result[1].raises = "none"
    /\ scoring.result[1].value[1].intrp = None
    /\ Len(scoring.input.df.index) = MaxRows

\* C15: whenever make_scores returns, 'values' has as many rows as df,
\* whatever the index of df; a call that does not return has raised.
C15_ValuesHasRowsOfInput ==
    pc = "scored" =>
        LET in == scoring.input
            res == scoring.result[1]
        IN  /\ res.raises = "none"
                => Len(res.value[1].values.index) = Len(in.df.index)
            /\ res.raises # "none" => res.value = None

\* make_scores returned on a dataframe whose index is neither 0..n-1 nor unique
C15_Witness ==
    /\ pc = "scored"
    /\ scoring.result[1].raises = "none"
    /\ Len(scoring.input.df.index) = MaxRows
    /\ ~IsUnique(scoring.input.df.index)
    /\ scoring.input.df.index # RangeIndex(MaxRows)

====
